---- MODULE Spec2Model ----
(***************************************************************************)
(* Model of src/app.py: the Academic Integrity Simulator.                  *)
(*                                                                         *)
(* get_ai_response composes a prompt from a persona, an optional chat      *)
(* history and a user text, sends it to the completion endpoint and        *)
(* retries once after a fixed sleep when the endpoint raises               *)
(* ResourceExhausted.  The chat_input handler appends the user turn, runs  *)
(* the student completion and, if the sidebar checkbox is ticked, the      *)
(* integrity-checker completion, and appends the assistant turn.           *)
(*                                                                         *)
(* Text is a sequence of tokens, so that concatenation, prefixes and       *)
(* suffixes of a prompt are computed rather than assumed.                  *)
(***************************************************************************)
EXTENDS Integers, Sequences, FiniteSets, TLC

VARIABLES
    messages,             \* st.session_state.messages
    run_integrity_check,  \* the sidebar checkbox
    secrets,              \* TRUE iff st.secrets holds GEMINI_API_KEY
    pc,                   \* position of the script / of get_ai_response
    stage,                \* 0 idle, 1 student call, 2 checker call
    frame,                \* arguments of the running get_ai_response call
    full_prompt,          \* local full_prompt of get_ai_response
    ret,                  \* value returned by the last get_ai_response call
    student_response,     \* local of the chat_input handler
    trace,                \* calls, endpoint requests and sleeps of this interaction
    banners,              \* st.warning / st.error shown during this interaction
    log0,                 \* session log when the utterance was accepted
    origin,               \* per turn of the log: how the interaction produced it
    turns                 \* interactions started so far

vars == <<messages, run_integrity_check, secrets, pc, stage, frame, full_prompt,
          ret, student_response, trace, banners, log0, origin, turns>>

----------------------------------------------------------------------------
(* Bounds *)

MaxTurns == 2
MaxHist == 2

----------------------------------------------------------------------------
(* Values *)

\* Python None and str, kept apart so that truthiness is computed.
None == [kind |-> "None"]
Str(t) == [kind |-> "str", text |-> t]
List(l) == [kind |-> "list", items |-> l]

\* Python truthiness of None, a str or a list.
Truthy(v) ==
    CASE v.kind = "None" -> FALSE
      [] v.kind = "str" -> v.text # <<>>
      [] v.kind = "list" -> v.items # <<>>

STUDENT_PERSONA == <<"STUDENT_PERSONA">>
INTEGRITY_CHECKER_PERSONA == <<"INTEGRITY_CHECKER_PERSONA">>

\* Utterances typed into st.chat_input (never empty: the walrus test drops "").
UserTexts == {<<"q">>, <<"w", "\n", "x">>}
\* Texts the endpoint can return for the student and the checker persona.
StudentTexts == {<<>>, <<"s">>, <<"t", "\n">>}
VerdictTexts == {<<>>, <<"v">>}
\* Exceptions generate_content can raise: ResourceExhausted and the rest.
Failures == {"RateLimited", "Unauthorized", "Other"}

Ok(t) == [ok |-> TRUE, text |-> t]
Fail(f) == [ok |-> FALSE, failure |-> f]

\* What one endpoint request can produce for the given persona.
Outcomes(persona) ==
    {Fail(f) : f \in Failures} \cup
    {Ok(t) : t \in (IF persona = STUDENT_PERSONA THEN StudentTexts ELSE VerdictTexts)}

----------------------------------------------------------------------------
(* Prompt composition, get_ai_response lines 18-25 *)

RoleLabel(message) ==
    IF message.role = "user" THEN <<"User">> ELSE <<"Student">>

\* A variant that does not end the line.
HistoryLine_NoNewline(message) ==
    RoleLabel(message) \o <<": ">> \o message.content

\* A variant that echoes the stored analysis after the content.
HistoryLine_WithAnalysis(message) ==
    RoleLabel(message) \o <<": ">> \o message.content \o
    (IF "analysis" \in DOMAIN message THEN message.analysis ELSE <<>>) \o <<"\n">>

HistoryLine(message) ==
    RoleLabel(message) \o <<": ">> \o message.content \o <<"\n">>

RECURSIVE HistoryLoop(_, _)
HistoryLoop(acc, chat_history) ==
    IF chat_history = <<>> THEN acc
    ELSE HistoryLoop(acc \o HistoryLine(Head(chat_history)), Tail(chat_history))

FullPrompt(prompt, persona, chat_history) ==
    LET p0 == persona \o <<"\n", "\n">>
        p1 == IF Truthy(chat_history) THEN HistoryLoop(p0, chat_history.items) ELSE p0
    IN  p1 \o <<"User", ": ", "\"">> \o prompt \o <<"\"">>

\* A variant that returns response.text whatever it is.
ResponseValue_AnyText(text) == Str(text)

\* response.text if response and response.text else None
ResponseValue(text) == IF text # <<>> THEN Str(text) ELSE None

----------------------------------------------------------------------------
(* Trace events *)

CallEv(s, f) == [ev |-> "call", stage |-> s, prompt |-> f.prompt,
                 persona |-> f.persona, chat_history |-> f.chat_history]
RequestEv(s, p, o) == [ev |-> "request", stage |-> s, prompt |-> p, outcome |-> o]
SleepEv(s) == [ev |-> "sleep", stage |-> s]

NoFrame == [prompt |-> <<>>, persona |-> <<>>, chat_history |-> None]

----------------------------------------------------------------------------
(* Initial state: script started, empty session log (lines 85-86) *)

Init ==
    /\ messages = <<>>
    /\ run_integrity_check = TRUE
    /\ secrets \in BOOLEAN
    /\ pc = "idle"
    /\ stage = 0
    /\ frame = NoFrame
    /\ full_prompt = <<>>
    /\ ret = None
    /\ student_response = None
    /\ trace = <<>>
    /\ banners = <<>>
    /\ log0 = <<>>
    /\ origin = <<>>
    /\ turns = 0

----------------------------------------------------------------------------
(* The sidebar checkbox (line 81): ticking it reruns the script with no input *)

Toggle ==
    /\ pc = "idle"
    /\ run_integrity_check' = ~run_integrity_check
    /\ UNCHANGED <<messages, secrets, pc, stage, frame, full_prompt, ret,
                   student_response, trace, banners, log0, origin, turns>>

----------------------------------------------------------------------------
(* chat_input handler, lines 97-105: append the user turn, call the student *)

UserTurn(prompt) == [role |-> "user", content |-> prompt]

\* A variant that accepts an utterance while a turn is still running.
ChatInput_Overlapping(prompt) ==
    /\ turns < MaxTurns
    /\ messages' = Append(messages, UserTurn(prompt))
    /\ origin' = Append(origin, [checked |-> run_integrity_check, verdict |-> None])
    /\ log0' = messages
    /\ frame' = [prompt |-> prompt, persona |-> STUDENT_PERSONA,
                 chat_history |-> List(messages')]
    /\ stage' = 1
    /\ pc' = "configure"
    /\ trace' = <<CallEv(1, frame')>>
    /\ banners' = <<>>
    /\ turns' = turns + 1
    /\ student_response' = None
    /\ ret' = None
    /\ full_prompt' = <<>>
    /\ UNCHANGED <<run_integrity_check, secrets>>

ChatInput(prompt) ==
    /\ pc = "idle"
    /\ turns < MaxTurns
    /\ messages' = Append(messages, UserTurn(prompt))
    /\ origin' = Append(origin, [checked |-> run_integrity_check, verdict |-> None])
    /\ log0' = messages
    /\ frame' = [prompt |-> prompt, persona |-> STUDENT_PERSONA,
                 chat_history |-> List(messages')]
    /\ stage' = 1
    /\ pc' = "configure"
    /\ trace' = <<CallEv(1, frame')>>
    /\ banners' = <<>>
    /\ turns' = turns + 1
    /\ student_response' = None
    /\ ret' = None
    /\ full_prompt' = <<>>
    /\ UNCHANGED <<run_integrity_check, secrets>>

----------------------------------------------------------------------------
(* get_ai_response *)

\* A variant in which a missing key does not stop the call.
Configure_LazyKey ==
    /\ pc = "configure"
    /\ full_prompt' = FullPrompt(frame.prompt, frame.persona, frame.chat_history)
    /\ pc' = "generate"
    /\ UNCHANGED <<messages, run_integrity_check, secrets, stage, frame, ret, banners,
                   student_response, trace, log0, origin, turns>>

\* Lines 13-25: read the key (KeyError goes to the generic handler, lines
\* 41-43), then compose the prompt.
Configure ==
    /\ pc = "configure"
    /\ IF secrets
       THEN /\ full_prompt' = FullPrompt(frame.prompt, frame.persona, frame.chat_history)
            /\ pc' = "generate"
            /\ UNCHANGED <<ret, banners>>
       ELSE /\ banners' = Append(banners, <<"api_error", "KeyError">>)
            /\ ret' = None
            /\ pc' = "return"
            /\ UNCHANGED full_prompt
    /\ UNCHANGED <<messages, run_integrity_check, secrets, stage, frame,
                   student_response, trace, log0, origin, turns>>

\* A variant whose first handler catches every exception.
IsResourceExhausted_AnyError(failure) == failure \in Failures

\* Line 30: which exceptions the first handler catches.
IsResourceExhausted(failure) == failure = "RateLimited"

\* A variant that treats an empty completion like a rate limit.
Generate_RetryEmpty(o) ==
    /\ pc = "generate"
    /\ trace' = Append(trace, RequestEv(stage, full_prompt, o))
    /\ IF o.ok /\ o.text # <<>>
       THEN /\ ret' = ResponseValue(o.text)
            /\ pc' = "return"
            /\ UNCHANGED banners
       ELSE IF o.ok \/ IsResourceExhausted(o.failure)
            THEN /\ banners' = Append(banners, <<"rate_limit_warning", "retry">>)
                 /\ pc' = "sleep"
                 /\ UNCHANGED ret
            ELSE /\ banners' = Append(banners, <<"api_error", o.failure>>)
                 /\ ret' = None
                 /\ pc' = "return"
    /\ UNCHANGED <<messages, run_integrity_check, secrets, stage, frame, full_prompt,
                   student_response, log0, origin, turns>>

\* Lines 27-32 and 41-43: the first request and the two exception handlers.
Generate(o) ==
    /\ pc = "generate"
    /\ trace' = Append(trace, RequestEv(stage, full_prompt, o))
    /\ IF o.ok
       THEN /\ ret' = ResponseValue(o.text)
            /\ pc' = "return"
            /\ UNCHANGED banners
       ELSE IF IsResourceExhausted(o.failure)
            THEN /\ banners' = Append(banners, <<"rate_limit_warning", o.failure>>)
                 /\ pc' = "sleep"
                 /\ UNCHANGED ret
            ELSE /\ banners' = Append(banners, <<"api_error", o.failure>>)
                 /\ ret' = None
                 /\ pc' = "return"
    /\ UNCHANGED <<messages, run_integrity_check, secrets, stage, frame, full_prompt,
                   student_response, log0, origin, turns>>

\* A variant that backs off twice before the retry.
Sleep_BackoffTwice ==
    /\ pc = "sleep"
    /\ trace' = trace \o <<SleepEv(stage), SleepEv(stage)>>
    /\ pc' = "retry"
    /\ UNCHANGED <<messages, run_integrity_check, secrets, stage, frame, full_prompt,
                   ret, student_response, banners, log0, origin, turns>>

\* Line 33: time.sleep(30).
Sleep ==
    /\ pc = "sleep"
    /\ trace' = Append(trace, SleepEv(stage))
    /\ pc' = "retry"
    /\ UNCHANGED <<messages, run_integrity_check, secrets, stage, frame, full_prompt,
                   ret, student_response, banners, log0, origin, turns>>

\* A variant of the retry that rebuilds the prompt without the history.
Retry_Recomposed(o) ==
    /\ pc = "retry"
    /\ trace' = Append(trace, RequestEv(stage,
                     FullPrompt(frame.prompt, frame.persona, None), o))
    /\ IF o.ok
       THEN /\ ret' = ResponseValue(o.text)
            /\ UNCHANGED banners
       ELSE /\ banners' = Append(banners, <<"retry_error", o.failure>>)
            /\ ret' = None
    /\ pc' = "return"
    /\ UNCHANGED <<messages, run_integrity_check, secrets, stage, frame, full_prompt,
                   student_response, log0, origin, turns>>

\* A variant of the retry that waits and tries again on a further rate limit.
Retry_Again(o) ==
    /\ pc = "retry"
    /\ trace' = Append(trace, RequestEv(stage, full_prompt, o))
    /\ IF o.ok
       THEN /\ ret' = ResponseValue(o.text)
            /\ pc' = "return"
            /\ UNCHANGED banners
       ELSE IF IsResourceExhausted(o.failure)
            THEN /\ banners' = Append(banners, <<"rate_limit_warning", o.failure>>)
                 /\ pc' = "sleep"
                 /\ UNCHANGED ret
            ELSE /\ banners' = Append(banners, <<"retry_error", o.failure>>)
                 /\ ret' = None
                 /\ pc' = "return"
    /\ UNCHANGED <<messages, run_integrity_check, secrets, stage, frame, full_prompt,
                   student_response, log0, origin, turns>>

\* Lines 34-39: the single retry; every exception ends the call.
Retry(o) ==
    /\ pc = "retry"
    /\ trace' = Append(trace, RequestEv(stage, full_prompt, o))
    /\ IF o.ok
       THEN /\ ret' = ResponseValue(o.text)
            /\ UNCHANGED banners
       ELSE /\ banners' = Append(banners, <<"retry_error", o.failure>>)
            /\ ret' = None
    /\ pc' = "return"
    /\ UNCHANGED <<messages, run_integrity_check, secrets, stage, frame, full_prompt,
                   student_response, log0, origin, turns>>

----------------------------------------------------------------------------
(* chat_input handler, lines 105-135 *)

\* A variant that stores the "analysis" key in every branch.
AssistantTurn_AlwaysAnalysis(response, analysis) ==
    [role |-> "assistant", content |-> response.text,
     analysis |-> IF Truthy(analysis) THEN analysis.text ELSE <<>>]

\* A variant that stores the student text under both keys.
AssistantTurn_Swapped(response, analysis) ==
    IF Truthy(analysis)
    THEN [role |-> "assistant", content |-> response.text, analysis |-> response.text]
    ELSE [role |-> "assistant", content |-> response.text]

\* Lines 117-133: the assistant dict, with "analysis" only in the first branch.
AssistantTurn(response, analysis) ==
    IF Truthy(analysis)
    THEN [role |-> "assistant", content |-> response.text, analysis |-> analysis.text]
    ELSE [role |-> "assistant", content |-> response.text]

\* A variant that ignores the checkbox.
RunsCheck_Always(checkbox) == TRUE

\* Line 110: whether the second completion runs.
RunsCheck(checkbox) == checkbox

\* A variant without the test of line 106: a turn is stored for a failed call.
StudentReturned_NoGuard ==
    /\ pc = "return"
    /\ stage = 1
    /\ student_response' = ret
    /\ messages' = Append(messages, [role |-> "assistant",
                                     content |-> IF Truthy(ret) THEN ret.text ELSE <<>>])
    /\ origin' = Append(origin, [checked |-> run_integrity_check, verdict |-> None])
    /\ stage' = 0
    /\ pc' = "idle"
    /\ UNCHANGED <<run_integrity_check, secrets, frame, full_prompt, ret, trace,
                   banners, log0, turns>>

\* A variant that hands the session log to the checker call as well.
StudentReturned_WithHistory ==
    /\ pc = "return"
    /\ stage = 1
    /\ student_response' = ret
    /\ IF Truthy(ret)
       THEN IF RunsCheck(run_integrity_check)
            THEN /\ frame' = [prompt |-> ret.text, persona |-> INTEGRITY_CHECKER_PERSONA,
                              chat_history |-> List(messages)]
                 /\ stage' = 2
                 /\ pc' = "configure"
                 /\ trace' = Append(trace, CallEv(2, frame'))
                 /\ UNCHANGED <<messages, origin, banners>>
            ELSE /\ messages' = Append(messages, AssistantTurn(ret, None))
                 /\ origin' = Append(origin, [checked |-> run_integrity_check, verdict |-> None])
                 /\ stage' = 0
                 /\ pc' = "idle"
                 /\ UNCHANGED <<frame, trace, banners>>
       ELSE /\ banners' = Append(banners, <<"student_error", "none">>)
            /\ stage' = 0
            /\ pc' = "idle"
            /\ UNCHANGED <<messages, origin, frame, trace>>
    /\ UNCHANGED <<run_integrity_check, secrets, full_prompt, ret, log0, turns>>

\* Lines 105-112 and 128-135: the student call has returned.
StudentReturned ==
    /\ pc = "return"
    /\ stage = 1
    /\ student_response' = ret
    /\ IF Truthy(ret)
       THEN IF RunsCheck(run_integrity_check)
            THEN /\ frame' = [prompt |-> ret.text, persona |-> INTEGRITY_CHECKER_PERSONA,
                              chat_history |-> None]
                 /\ stage' = 2
                 /\ pc' = "configure"
                 /\ trace' = Append(trace, CallEv(2, frame'))
                 /\ UNCHANGED <<messages, origin, banners>>
            ELSE /\ messages' = Append(messages, AssistantTurn(ret, None))
                 /\ origin' = Append(origin, [checked |-> run_integrity_check, verdict |-> None])
                 /\ stage' = 0
                 /\ pc' = "idle"
                 /\ UNCHANGED <<frame, trace, banners>>
       ELSE /\ banners' = Append(banners, <<"student_error", "none">>)
            /\ stage' = 0
            /\ pc' = "idle"
            /\ UNCHANGED <<messages, origin, frame, trace>>
    /\ UNCHANGED <<run_integrity_check, secrets, full_prompt, ret, log0, turns>>

\* A variant that stores the answer and the analysis as two assistant turns.
CheckerReturned_TwoTurns ==
    /\ pc = "return"
    /\ stage = 2
    /\ messages' = IF Truthy(ret)
                   THEN messages \o <<AssistantTurn(student_response, None),
                                      AssistantTurn(ret, None)>>
                   ELSE Append(messages, AssistantTurn(student_response, None))
    /\ origin' = IF Truthy(ret)
                 THEN origin \o <<[checked |-> run_integrity_check, verdict |-> None],
                                  [checked |-> run_integrity_check, verdict |-> ret]>>
                 ELSE Append(origin, [checked |-> run_integrity_check, verdict |-> ret])
    /\ banners' = IF Truthy(ret) THEN banners
                  ELSE Append(banners, <<"checker_error", "none">>)
    /\ stage' = 0
    /\ pc' = "idle"
    /\ UNCHANGED <<run_integrity_check, secrets, frame, full_prompt, ret,
                   student_response, trace, log0, turns>>

\* A variant that stores the answer over the last turn of the log.
CheckerReturned_Rewrite ==
    /\ pc = "return"
    /\ stage = 2
    /\ messages' = [messages EXCEPT ![Len(messages)] = AssistantTurn(student_response, ret)]
    /\ origin' = [origin EXCEPT ![Len(origin)] =
                      [checked |-> run_integrity_check, verdict |-> ret]]
    /\ banners' = IF Truthy(ret) THEN banners
                  ELSE Append(banners, <<"checker_error", "none">>)
    /\ stage' = 0
    /\ pc' = "idle"
    /\ UNCHANGED <<run_integrity_check, secrets, frame, full_prompt, ret,
                   student_response, trace, log0, turns>>

\* Lines 112-127: the checker call has returned.
CheckerReturned ==
    /\ pc = "return"
    /\ stage = 2
    /\ messages' = Append(messages, AssistantTurn(student_response, ret))
    /\ origin' = Append(origin, [checked |-> run_integrity_check, verdict |-> ret])
    /\ banners' = IF Truthy(ret) THEN banners
                  ELSE Append(banners, <<"checker_error", "none">>)
    /\ stage' = 0
    /\ pc' = "idle"
    /\ UNCHANGED <<run_integrity_check, secrets, frame, full_prompt, ret,
                   student_response, trace, log0, turns>>

----------------------------------------------------------------------------

Next ==
    \/ Toggle
    \/ \E prompt \in UserTexts : ChatInput(prompt)
    \/ Configure
    \/ \E o \in Outcomes(frame.persona) : Generate(o)
    \/ Sleep
    \/ \E o \in Outcomes(frame.persona) : Retry(o)
    \/ StudentReturned
    \/ CheckerReturned

Spec == Init /\ [][Next]_vars

----------------------------------------------------------------------------
(* Observations on the trace of the current interaction *)

IsRequest(e) == e.ev = "request"
IsSleep(e) == e.ev = "sleep"
IsCall(e) == e.ev = "call"

\* The endpoint requests of the stage-s completion call, in order.
Requests(s) ==
    LET Test(e) == IsRequest(e) /\ e.stage = s IN SelectSeq(trace, Test)
Sleeps(s) ==
    LET Test(e) == IsSleep(e) /\ e.stage = s IN SelectSeq(trace, Test)
Calls(s) ==
    LET Test(e) == IsCall(e) /\ e.stage = s IN SelectSeq(trace, Test)

LastRequest(s) == Requests(s)[Len(Requests(s))]

\* The completion of stage s ended with a successful request carrying text.
StageOk(s) ==
    /\ Requests(s) # <<>>
    /\ LastRequest(s).outcome.ok
    /\ LastRequest(s).outcome.text # <<>>
StageText(s) == LastRequest(s).outcome.text

\* An interaction has run to its end.
Finished == pc = "idle" /\ turns > 0
\* The utterance of the interaction and the checkbox as the script run read it.
Utterance == trace[1].prompt
Checked == origin[Len(log0) + 1].checked

----------------------------------------------------------------------------
(* C1 *)

\* C1: when the student completion succeeded with text S, the check was
\* enabled and the checker completion failed (exception, exhausted retry or
\* empty text), the interaction appended the user turn and exactly one
\* assistant turn whose content is S and which has no analysis field.
C1_PartialFailureIsolation ==
    (Finished /\ StageOk(1) /\ Checked /\ ~StageOk(2)) =>
        /\ messages = log0 \o <<UserTurn(Utterance),
                                [role |-> "assistant", content |-> StageText(1)]>>
        /\ "analysis" \notin DOMAIN messages[Len(messages)]

C1_Witness ==
    /\ Finished /\ StageOk(1) /\ Checked /\ ~StageOk(2)
    /\ Len(Requests(2)) = 2
    /\ ~LastRequest(2).outcome.ok
    /\ messages[Len(messages)].role = "assistant"
    /\ messages[Len(messages)].content = StageText(1)

----------------------------------------------------------------------------
(* C2 *)

\* C2: when the student completion failed (exception, exhausted retry,
\* missing key or empty text), the log after the interaction is the log
\* before it plus the user turn, and no checker call was issued.
C2_StudentFailureAborts ==
    (Finished /\ ~StageOk(1)) =>
        /\ messages = log0 \o <<UserTurn(Utterance)>>
        /\ Calls(2) = <<>>
        /\ Requests(2) = <<>>

C2_Witness ==
    /\ Finished /\ ~StageOk(1)
    /\ log0 # <<>>
    /\ Requests(1) # <<>>
    /\ LastRequest(1).outcome = Ok(<<>>)
    /\ messages[Len(messages)] = UserTurn(Utterance)

----------------------------------------------------------------------------
(* C3, C4, C5: the retry policy of one get_ai_response call *)

\* The requests and sleeps of the stage-s call, in the order they happened.
StageEvents(s) ==
    LET Test(e) == ~IsCall(e) /\ e.stage = s IN SelectSeq(trace, Test)

RateLimited(e) == ~e.outcome.ok /\ e.outcome.failure = "RateLimited"
Succeeded(e) == e.outcome.ok /\ e.outcome.text # <<>>

\* C3: when the first request of a call fails with RateLimited and the
\* second succeeds with non-empty text T, the call returns T, having slept
\* exactly once, between the two requests, and having sent the same prompt
\* twice.
C3_RetryAfterOneRateLimit ==
    (/\ pc = "return"
     /\ Len(Requests(stage)) >= 2
     /\ RateLimited(Requests(stage)[1])
     /\ Succeeded(Requests(stage)[2])) =>
        /\ ret = Str(Requests(stage)[2].outcome.text)
        /\ Len(Sleeps(stage)) = 1
        /\ Len(StageEvents(stage)) = 3
        /\ IsRequest(StageEvents(stage)[1])
        /\ IsSleep(StageEvents(stage)[2])
        /\ IsRequest(StageEvents(stage)[3])
        /\ StageEvents(stage)[3].prompt = StageEvents(stage)[1].prompt

C3_Witness ==
    /\ pc = "return"
    /\ stage = 1
    /\ Len(messages) > 1
    /\ Len(Requests(1)) = 2
    /\ RateLimited(Requests(1)[1])
    /\ Succeeded(Requests(1)[2])
    /\ ret = Str(<<"s">>)

\* C4: when the first and the second request of a call both fail with
\* RateLimited, the call returns None after exactly two requests and one
\* sleep; and no call ever issues more than two requests or more than one
\* sleep.
C4_RetryExhaustion ==
    /\ \A s \in {1, 2} : Len(Requests(s)) <= 2 /\ Len(Sleeps(s)) <= 1
    /\ (/\ pc = "return"
        /\ Len(Requests(stage)) >= 2
        /\ RateLimited(Requests(stage)[1])
        /\ RateLimited(Requests(stage)[2])) =>
           /\ ret = None
           /\ Len(Requests(stage)) = 2
           /\ Len(Sleeps(stage)) = 1

C4_Witness ==
    /\ pc = "return"
    /\ stage = 2
    /\ Len(Requests(2)) = 2
    /\ RateLimited(Requests(2)[1])
    /\ RateLimited(Requests(2)[2])
    /\ Len(Sleeps(2)) = 1
    /\ ret = None

\* C5: when the first request of a call fails with a failure other than
\* RateLimited, the call returns None with exactly one request issued and
\* no sleep.
C5_NoRetryForOtherFailures ==
    (/\ pc = "return"
     /\ Requests(stage) # <<>>
     /\ ~Requests(stage)[1].outcome.ok
     /\ ~RateLimited(Requests(stage)[1])) =>
        /\ ret = None
        /\ Len(Requests(stage)) = 1
        /\ Sleeps(stage) = <<>>

C5_Witness ==
    /\ pc = "return"
    /\ Len(Requests(stage)) = 1
    /\ Requests(stage)[1].outcome = Fail("Unauthorized")
    /\ Sleeps(stage) = <<>>
    /\ ret = None

----------------------------------------------------------------------------
(* C6, C7: the checkbox and the analysis field *)

\* C6: in an interaction run with the check disabled no checker call and no
\* checker request is issued, whatever the student call gave; and when the
\* student call succeeded, the appended assistant turn carries the student
\* text and no analysis field.
C6_ToggleRespected ==
    /\ (turns > 0 /\ ~Checked) => (Calls(2) = <<>> /\ Requests(2) = <<>>)
    /\ (Finished /\ ~Checked /\ StageOk(1)) =>
           /\ messages = log0 \o <<UserTurn(Utterance),
                                   [role |-> "assistant", content |-> StageText(1)]>>
           /\ "analysis" \notin DOMAIN messages[Len(messages)]

C6_Witness ==
    /\ Finished /\ ~Checked /\ StageOk(1)
    /\ Len(trace) = 4
    /\ Calls(2) = <<>>
    /\ messages[Len(messages)] = [role |-> "assistant", content |-> <<"s">>]

\* C7: a turn of the log has an analysis field only if it is an assistant
\* turn appended by an interaction that ran with the check enabled and whose
\* checker call returned non-empty text; the field holds that text.
C7_AnalysisInvariant ==
    /\ Len(origin) = Len(messages)
    /\ \A i \in 1..Len(messages) :
          "analysis" \in DOMAIN messages[i] =>
              /\ messages[i].role = "assistant"
              /\ origin[i].checked
              /\ Truthy(origin[i].verdict)
              /\ messages[i].analysis = origin[i].verdict.text

C7_Witness ==
    /\ Len(messages) = 4
    /\ "analysis" \in DOMAIN messages[2]
    /\ messages[2].analysis = <<"v">>
    /\ "analysis" \notin DOMAIN messages[4]
    /\ messages[4].role = "assistant"

----------------------------------------------------------------------------
(* C8: what the caller of get_ai_response can tell *)

\* Lines 39 and 43: what get_ai_response returns after an exception.
ApiFailureReturn == None

EmptyCompletion == Requests(stage) # <<>> /\ LastRequest(stage).outcome = Ok(<<>>)
RequestFailed == Requests(stage) # <<>> /\ ~LastRequest(stage).outcome.ok

IsErrorBanner(b) == b[1] \in {"api_error", "retry_error"}
ErrorBanners == SelectSeq(banners, IsErrorBanner)

\* C8 as stated: a call whose request succeeded with empty text returns
\* something the caller can tell from the return of a failed request.
C8_EmptyIsDistinctKind ==
    (pc = "return" /\ EmptyCompletion) => ret # ApiFailureReturn

\* C8, amended: a call whose request succeeded with empty text returns None,
\* the value it returns for a failed request; the two differ only in that a
\* failed request makes get_ai_response show an error banner naming the
\* exception and an empty completion shows none.
C8_EmptyAndFailureBothNone ==
    /\ (pc = "return" /\ EmptyCompletion) =>
           (ret = None /\ ret = ApiFailureReturn /\ ErrorBanners = <<>>)
    /\ (pc = "return" /\ RequestFailed) =>
           /\ ret = None
           /\ Len(ErrorBanners) = 1
           /\ ErrorBanners[1][2] = LastRequest(stage).outcome.failure

C8_Witness ==
    /\ pc = "return"
    /\ EmptyCompletion
    /\ Len(Requests(stage)) = 2
    /\ ret = None
    /\ ErrorBanners = <<>>

----------------------------------------------------------------------------
(* Prompt composition on its own: get_ai_response called with any persona, *)
(* history and user text, run up to the composed full_prompt.              *)

ComposePrompts == {<<>>, <<"q">>, <<"w", "\n", "x">>}
ComposePersonas == {STUDENT_PERSONA, INTEGRITY_CHECKER_PERSONA}
ComposeRoles == {"user", "assistant", "system"}
ComposeContents == {<<"a">>, <<"b", "\n">>}
ComposeMessages ==
    {[role |-> r, content |-> c] : r \in ComposeRoles, c \in ComposeContents} \cup
    {[role |-> r, content |-> c, analysis |-> <<"v">>] :
        r \in ComposeRoles, c \in ComposeContents}
ComposeHistories ==
    {None} \cup {List(h) : h \in UNION {[1..n -> ComposeMessages] : n \in 0..MaxHist}}

InitCompose ==
    /\ messages = <<>>
    /\ run_integrity_check = TRUE
    /\ secrets = TRUE
    /\ pc = "configure"
    /\ stage = 1
    /\ frame \in [prompt : ComposePrompts, persona : ComposePersonas,
                  chat_history : ComposeHistories]
    /\ full_prompt = <<>>
    /\ ret = None
    /\ student_response = None
    /\ trace = <<>>
    /\ banners = <<>>
    /\ log0 = <<>>
    /\ origin = <<>>
    /\ turns = 0

NextCompose == Configure

SpecCompose == InitCompose /\ [][NextCompose]_vars

\* The prompt has been composed (the call stands before line 27).
Composed == pc = "generate"
\* The history the call iterates over: none for None and for [].
HistoryOf(f) == IF f.chat_history.kind = "list" THEN f.chat_history.items ELSE <<>>

----------------------------------------------------------------------------
(* C9 *)

LineLen(message) == Len(message.content) + 3

RECURSIVE LinesLen(_)
LinesLen(h) == IF h = <<>> THEN 0 ELSE LineLen(Head(h)) + LinesLen(Tail(h))

\* Where the i-th history line starts, counted from the end of the preamble.
LineOffset(f, i) == Len(f.persona) + 2 + LinesLen(SubSeq(HistoryOf(f), 1, i - 1))

PromptSuffix(prompt) == <<"User", ": ", "\"">> \o prompt \o <<"\"">>

\* C9: the composed prompt starts with the persona followed by a blank
\* line, ends with User: "U", and holds between them exactly one line per
\* history turn, in order, labelled User for role user and Student
\* otherwise, followed by the turn's content.
C9_PromptStructure ==
    Composed =>
        LET p == frame.persona
            U == frame.prompt
            H == HistoryOf(frame)
            n == Len(full_prompt)
        IN  /\ n = Len(p) + 2 + LinesLen(H) + Len(U) + 4
            /\ SubSeq(full_prompt, 1, Len(p) + 2) = p \o <<"\n", "\n">>
            /\ SubSeq(full_prompt, n - Len(U) - 3, n) = PromptSuffix(U)
            /\ \A i \in 1..Len(H) :
                  LET o == LineOffset(frame, i)
                      c == H[i].content
                  IN  /\ full_prompt[o + 1] = (IF H[i].role = "user" THEN "User" ELSE "Student")
                      /\ full_prompt[o + 2] = ": "
                      /\ SubSeq(full_prompt, o + 3, o + 2 + Len(c)) = c
                      /\ full_prompt[o + 3 + Len(c)] = "\n"

C9_Witness ==
    /\ Composed
    /\ frame.persona = STUDENT_PERSONA
    /\ frame.prompt = <<"q">>
    /\ frame.chat_history = List(<<[role |-> "user", content |-> <<"a">>],
                                   [role |-> "assistant", content |-> <<"b", "\n">>,
                                    analysis |-> <<"v">>]>>)
    /\ full_prompt = <<"STUDENT_PERSONA", "\n", "\n",
                       "User", ": ", "a", "\n",
                       "Student", ": ", "b", "\n", "\n",
                       "User", ": ", "\"", "q", "\"">>

----------------------------------------------------------------------------
(* C10 *)

AnalysisOptions == {None, Str(<<"v">>), Str(<<"z">>)}

\* The turn with its analysis field removed or set as the option says.
WithAnalysis(message, option) ==
    IF option = None
    THEN [role |-> message.role, content |-> message.content]
    ELSE [role |-> message.role, content |-> message.content, analysis |-> option.text]

\* Every log equal to h in roles and contents.
AnalysisVariants(h) ==
    {[i \in 1..Len(h) |-> WithAnalysis(h[i], choice[i])] :
        choice \in [1..Len(h) -> AnalysisOptions]}

\* C10: the prompt composed from a history is the prompt composed from any
\* history with the same roles and contents, whatever analysis fields the
\* turns carry: no analysis field reaches a prompt.
C10_AnalysisNeverInPrompt ==
    Composed =>
        \A h \in AnalysisVariants(HistoryOf(frame)) :
            FullPrompt(frame.prompt, frame.persona, List(h)) = full_prompt

C10_Witness ==
    /\ Composed
    /\ Len(HistoryOf(frame)) = 2
    /\ "analysis" \in DOMAIN HistoryOf(frame)[2]
    /\ HistoryOf(frame)[2].analysis = <<"v">>
    /\ \A k \in 1..Len(full_prompt) : full_prompt[k] # "v"

----------------------------------------------------------------------------
(* C11 *)

\* C11: a checker call is issued only after every request of the student
\* call, which returned non-empty text S; its user text is S, it gets no
\* history, and each prompt it sends is the checker persona, a blank line
\* and User: "S", whatever the session log holds.
C11_CheckerIsolatedAndOrdered ==
    \A i \in 1..Len(trace) :
        /\ (IsCall(trace[i]) /\ trace[i].stage = 2) =>
              /\ StageOk(1)
              /\ \A j \in 1..Len(trace) :
                    (IsRequest(trace[j]) /\ trace[j].stage = 1) => j < i
              /\ trace[i].prompt = StageText(1)
              /\ trace[i].persona = INTEGRITY_CHECKER_PERSONA
              /\ ~Truthy(trace[i].chat_history)
        /\ (IsRequest(trace[i]) /\ trace[i].stage = 2) =>
              trace[i].prompt =
                  INTEGRITY_CHECKER_PERSONA \o <<"\n", "\n">> \o PromptSuffix(StageText(1))

C11_Witness ==
    /\ log0 # <<>>
    /\ Len(Requests(1)) = 2
    /\ Len(Requests(2)) = 1
    /\ StageText(1) = <<"t", "\n">>
    /\ Requests(2)[1].prompt =
           <<"INTEGRITY_CHECKER_PERSONA", "\n", "\n", "User", ": ", "\"", "t", "\n", "\"">>

----------------------------------------------------------------------------
(* C12 *)

\* C12: when the API key is missing, a completion call returns None without
\* any endpoint request and without any sleep.
C12_MissingKeyFailsBeforeNetwork ==
    ~secrets =>
        /\ \A i \in 1..Len(trace) : IsCall(trace[i])
        /\ pc \in {"idle", "configure", "return"}
        /\ pc = "return" => (ret = None /\ Requests(stage) = <<>> /\ Sleeps(stage) = <<>>)

C12_Witness ==
    /\ ~secrets
    /\ pc = "return"
    /\ stage = 1
    /\ ret = None
    /\ trace = <<CallEv(1, frame)>>
    /\ banners = <<<<"api_error", "KeyError">>>>

----------------------------------------------------------------------------
(* C13: the turn as a state machine *)

\* The steps of the script once an utterance is accepted.
HandlerStep ==
    \/ Configure
    \/ \E o \in Outcomes(frame.persona) : Generate(o)
    \/ Sleep
    \/ \E o \in Outcomes(frame.persona) : Retry(o)
    \/ StudentReturned
    \/ CheckerReturned

\* The script runs on: generate_content and time.sleep return.
SpecFair == Init /\ [][Next]_vars /\ WF_vars(HandlerStep)

IsStudentError(b) == b[1] = "student_error"

\* Where the turn stands.  The script is idle before the first utterance
\* (Idle), after line 135 (Failed) and after an append of lines 117-133
\* (Done); the skipped check (lines 128-133) is passed within one step.
Phase ==
    IF pc = "idle"
    THEN IF turns = 0 THEN "Idle"
         ELSE IF SelectSeq(banners, IsStudentError) # <<>> THEN "Failed"
         ELSE "Done"
    ELSE IF stage = 1 THEN "AwaitingStudent" ELSE "AwaitingVerdict"

C13_Step ==
    /\ turns' # turns => pc = "idle"
    /\ \/ Phase' = Phase
       \/ Phase \in {"Idle", "Done", "Failed"} /\ Phase' = "AwaitingStudent"
       \/ Phase = "AwaitingStudent" /\ Phase' = "Failed" /\ ~StageOk(1)
       \/ Phase = "AwaitingStudent" /\ Phase' = "AwaitingVerdict"
              /\ StageOk(1) /\ Checked
       \/ Phase = "AwaitingStudent" /\ Phase' = "Done"
              /\ StageOk(1) /\ ~Checked
       \/ Phase = "AwaitingVerdict" /\ Phase' = "Done"

\* C13: a turn moves only Idle -> AwaitingStudent -> Failed, or ->
\* AwaitingVerdict -> Done when the student call succeeded and the check is
\* enabled, or (skipping the verdict) -> Done when it succeeded and the check
\* is disabled; no utterance is accepted while a turn runs; and when every
\* request and sleep returns, a running turn reaches Done or Failed.
C13_TurnStateMachine ==
    /\ [][C13_Step]_vars
    /\ (pc # "idle") ~> (Phase \in {"Done", "Failed"})

C13_Witness ==
    /\ Phase = "Done"
    /\ turns = 2
    /\ Calls(2) # <<>>
    /\ Len(Sleeps(2)) = 1
    /\ Len(messages) = 3

----------------------------------------------------------------------------
(* C14 *)

\* C14: every step leaves the session log as it was or longer, with the old
\* log as a prefix of the new one: no turn is removed, reordered or changed,
\* its analysis field included.
C14_AppendOnlyLog ==
    [][/\ Len(messages') >= Len(messages)
       /\ SubSeq(messages', 1, Len(messages)) = messages]_vars

C14_Witness ==
    /\ Len(messages) = 4
    /\ log0 = SubSeq(messages, 1, 2)
    /\ "analysis" \in DOMAIN messages[2]
    /\ "analysis" \in DOMAIN messages[4]

----------------------------------------------------------------------------
(* C15 *)

\* C15: the history of the student call is the session log as it was before
\* the utterance was accepted, so that each prompt of the student call is
\* the persona, the lines of that earlier log and, once, User: "U".
C15_StudentHistoryIsPriorLog ==
    \A i \in 1..Len(trace) :
        /\ (IsCall(trace[i]) /\ trace[i].stage = 1) => HistoryOf(trace[i]) = log0
        /\ (IsRequest(trace[i]) /\ trace[i].stage = 1) =>
              trace[i].prompt = FullPrompt(Utterance, STUDENT_PERSONA, List(log0))

----------------------------------------------------------------------------
(* C16 *)

\* C16: a request that succeeds with empty text, be it the first or the
\* retry, is the last thing its call does: the call returns None at once,
\* with no further request and no sleep after it.
C16_EmptyNeverRetried ==
    \A s \in {1, 2} :
        \A i \in 1..Len(StageEvents(s)) :
            (IsRequest(StageEvents(s)[i]) /\ StageEvents(s)[i].outcome = Ok(<<>>)) =>
                /\ i = Len(StageEvents(s))
                /\ stage = s => (pc = "return" /\ ret = None)

C16_Witness ==
    /\ pc = "return"
    /\ stage = 2
    /\ EmptyCompletion
    /\ Len(Requests(2)) = 1
    /\ Sleeps(2) = <<>>
    /\ ret = None

----------------------------------------------------------------------------
(* C17 *)

\* C17: the log starts with a user turn, every assistant turn directly
\* follows a user turn (so no two assistant turns are adjacent), and an
\* interaction appends to the log it found either its user turn alone (the
\* student call failed) or its user turn and then one assistant turn.
C17_TurnPairing ==
    /\ Len(messages) > 0 => messages[1].role = "user"
    /\ \A i \in 1..Len(messages) :
          messages[i].role = "assistant" => (i > 1 /\ messages[i - 1].role = "user")
    /\ turns > 0 =>
          /\ Len(messages) \in {Len(log0) + 1, Len(log0) + 2}
          /\ SubSeq(messages, 1, Len(log0)) = log0
          /\ messages[Len(log0) + 1] = UserTurn(Utterance)
          /\ Len(messages) = Len(log0) + 2 =>
                (messages[Len(messages)].role = "assistant" /\ StageOk(1))
          /\ (Finished /\ ~StageOk(1)) => Len(messages) = Len(log0) + 1
          /\ (Finished /\ StageOk(1)) => Len(messages) = Len(log0) + 2

C17_Witness ==
    /\ Finished
    /\ Len(messages) = 3
    /\ messages[1].role = "user"
    /\ messages[2].role = "user"
    /\ messages[3].role = "assistant"
    /\ "analysis" \in DOMAIN messages[3]

----------------------------------------------------------------------------
(* C18 *)

AllRequests == SelectSeq(trace, IsRequest)
AllSleeps == SelectSeq(trace, IsSleep)

\* C18: one interaction issues at most four requests and two sleeps, at
\* most two requests and one sleep when the check is disabled or the student
\* call has not succeeded, and every request of the checker call comes
\* after every request of the student call.
C18_BoundedRemoteWork ==
    /\ Len(AllRequests) <= 4
    /\ Len(AllSleeps) <= 2
    /\ (turns > 0 /\ (~Checked \/ ~StageOk(1))) =>
           (Len(AllRequests) <= 2 /\ Len(AllSleeps) <= 1)
    /\ \A i, j \in 1..Len(trace) :
           (/\ IsRequest(trace[i]) /\ trace[i].stage = 2
            /\ IsRequest(trace[j]) /\ trace[j].stage = 1) => j < i

C18_Witness ==
    /\ Finished
    /\ Len(AllRequests) = 4
    /\ Len(AllSleeps) = 2
    /\ Len(Requests(1)) = 2
    /\ Len(Requests(2)) = 2

====
